---------------------------- MODULE Spec2Model ----------------------------
(***************************************************************************)
(* Model of src/src/App.jsx: the React component App of the collaborative  *)
(* editor.  The state is the component's useState/useRef cells, the        *)
(* listeners it registers on the module-level socket, the objects it       *)
(* creates (media streams, PeerJS peers, media connections), the closure   *)
(* captured by the clean-up effect, and the asynchronous requests in       *)
(* flight.  One step of the model is one run-to-completion task of the     *)
(* browser's event loop: a UI handler, a socket listener or the            *)
(* continuation of an await, together with the render and the effects      *)
(* React runs for the state it set (automatic batching: the state set by   *)
(* one task is rendered once, after the task).                             *)
(***************************************************************************)
EXTENDS Naturals, Sequences, FiniteSets

\* ----------------------------------------------------------------- bounds
MaxCalls   == 2     \* runs of handleJoinVideoCall that pass its guard
MaxObjects == 3     \* those runs plus the media connections ever created
MaxAsync   == 2     \* REST requests in flight at the same time
MaxLink    == 4     \* pieces of the text typed into the join-link input

DocIds   == {"A", "B"}
Contents == {"hello", "hello world"}
Remotes  == {"p1", "p2"}
SelfIds  == <<"self1", "self2", "self3", "self4">>
ConnIds  == <<"conn1", "conn2", "conn3", "conn4", "conn5">>

NoDoc     == [id |-> "-", inList |-> FALSE, content |-> ""]
Undefined == "<undefined>"
NoPeer    == "<none>"

\* The text of the join-link input is a sequence of these pieces; none of
\* the two patterns the code looks for can straddle two pieces.
Pieces  == {"https://host", "/", "?doc=", "/documents/", "abc123", " "}
NoFetch == [sent |-> FALSE, id |-> <<>>]

VARIABLES
  token,        \* useState token: TRUE when a bearer token is held
  user,         \* useState user: TRUE when a user object is held
  documents,    \* useState documents: id -> content of the cached list
  urlDoc,       \* ?doc=ID of window.location.search ("-" when absent)
  selectedDoc,  \* useState selectedDoc (NoDoc models null)
  content,      \* useState content: the editor buffer
  isRemote,     \* useRef isRemote
  docListener,  \* listeners registered for 'document-updated'
  pending,      \* REST requests in flight: request -> how many
  inCall,       \* useState inCall
  myPeer,       \* useState myPeer: index in calls, 0 models null
  myStream,     \* useState myStream: index in calls, 0 models null
  peers,        \* useState peers: peer id -> index in conns
  videoRefs,    \* useRef videoRefs: the keys that hold a video element
  cl,           \* myPeer, myStream, peers as captured by the clean-up closure
  calls,        \* one record per run of handleJoinVideoCall; doc is the
                \* selectedDoc its 'open' callback closes over, "-" once
                \* that callback has run or can no longer run
  conns,        \* one record per media connection created
  out,          \* the last step's traffic, in order: the event received,
                \* the events sent, the calls made on collaborators
  remoteSince,  \* history: a remote update arrived since the last local-edit
                \* callback
  joinLink,     \* useState joinLink: the text of the join-link input
  joinError,    \* useState joinError ("" when none is shown)
  joinFetch     \* the last step's request by handleJoinDocument: whether it
                \* was sent and the document id in its URL

vars == <<token, user, documents, urlDoc, selectedDoc, content, isRemote,
          docListener, pending, inCall, myPeer, myStream, peers, videoRefs,
          cl, calls, conns, out, remoteSince, joinLink, joinError, joinFetch>>

\* ------------------------------------------------------------- data shapes
Requests ==
  [k : {"select", "join"}, d : DocIds] \cup
  {[k |-> "docs", d |-> "-"], [k |-> "put", d |-> "-"]}

RECURSIVE SumOver(_, _)
SumOver(f, S) ==
  IF S = {} THEN 0
  ELSE LET x == CHOOSE y \in S : TRUE IN f[x] + SumOver(f, S \ {x})

InFlight(s) == SumOver(s.pending, Requests)

Ev(e, a, b) == [ev |-> e, a |-> a, b |-> b]

Emit(s, e) == [s EXCEPT !.out = Append(@, e)]

HasEv(o, e) == \E i \in 1..Len(o) : o[i].ev = e

Start(s, r) == [s EXCEPT !.pending[r] = @ + 1]

Finish(s, r) == [s EXCEPT !.pending[r] = @ - 1]

EmptyMap == [p \in {} |-> 0]

\* The component's cells as one record; out starts empty in every step.
Cur ==
  [token |-> token, user |-> user, documents |-> documents,
   selectedDoc |-> selectedDoc, content |-> content, isRemote |-> isRemote,
   docListener |-> docListener, pending |-> pending, inCall |-> inCall,
   myPeer |-> myPeer, myStream |-> myStream, peers |-> peers,
   videoRefs |-> videoRefs, cl |-> cl, calls |-> calls, conns |-> conns,
   out |-> <<>>]

Set(s) ==
  /\ token' = s.token
  /\ user' = s.user
  /\ documents' = s.documents
  /\ urlDoc' = urlDoc
  /\ selectedDoc' = s.selectedDoc
  /\ content' = s.content
  /\ isRemote' = s.isRemote
  /\ docListener' = s.docListener
  /\ pending' = s.pending
  /\ inCall' = s.inCall
  /\ myPeer' = s.myPeer
  /\ myStream' = s.myStream
  /\ peers' = s.peers
  /\ videoRefs' = s.videoRefs
  /\ cl' = s.cl
  /\ calls' = s.calls
  /\ conns' = s.conns
  /\ out' = s.out
  /\ remoteSince' = IF HasEv(s.out, "document-updated") THEN TRUE
                    ELSE IF HasEv(s.out, "editor.change") THEN FALSE
                    ELSE remoteSince
  /\ UNCHANGED <<joinLink, joinError, joinFetch>>


\* ------------------------------------------------- objects the call creates
\* call.close(): the media connection is closed (closing twice is harmless).
CloseConn(s, c) == [s EXCEPT !.conns[c].open = FALSE]

RECURSIVE CloseAll(_, _)
CloseAll(s, C) ==
  IF C = {} THEN s
  ELSE LET c == CHOOSE x \in C : TRUE IN CloseAll(CloseConn(s, c), C \ {c})

\* call.close() for every connection of C, as the code calls it.
RECURSIVE CloseEach(_, _)
CloseEach(s, C) ==
  IF C = {} THEN s
  ELSE LET c == CHOOSE x \in C : \A y \in C : x <= y
       IN  CloseEach(Emit(CloseConn(s, c),
                          Ev("call.close", s.conns[c].remote, ConnIds[c])),
                     C \ {c})

\* peer.destroy(): PeerJS closes the peer (peer.open is false from then on,
\* and 'open' is never fired) and every connection it holds.
DestroyPeer(s, k) ==
  CloseAll([s EXCEPT !.calls[k].destroyed = TRUE, !.calls[k].open = FALSE,
                     !.calls[k].doc = "-"],
           {c \in 1..Len(s.conns) : s.conns[c].sess = k})

\* stream.getTracks().forEach(track => track.stop())
StopTracks(s, k) == [s EXCEPT !.calls[k].live = FALSE]

\* --------------------------------------------------------------- effects
\* The clean-up of the join-document effect: socket.off('document-updated').
Cleanup3(s) == [s EXCEPT !.docListener = 0]

\* The clean-up of the last effect.  myPeer, myStream and peers are the
\* values of the render in which selectedDoc last changed (the effect's only
\* dependency), kept in cl; the setters act on the current state.
Cleanup4(s) ==
  LET a == IF s.cl.myPeer # 0
             THEN Emit(DestroyPeer(s, s.cl.myPeer),
                       Ev("peer.destroy", SelfIds[s.cl.myPeer], ""))
             ELSE s
      b == IF s.cl.myStream # 0
             THEN Emit(StopTracks(a, s.cl.myStream),
                       Ev("track.stop", SelfIds[s.cl.myStream], ""))
             ELSE a
      c == CloseEach(b, {s.cl.peers[p] : p \in DOMAIN s.cl.peers})
  IN  [c EXCEPT !.videoRefs = {}, !.inCall = FALSE, !.peers = EmptyMap,
                !.myPeer = 0, !.myStream = 0]

\* The body of the join-document effect, run for render r.
Effect3(s, r) ==
  IF r.selectedDoc = NoDoc THEN s
  ELSE [Emit(s, Ev("join-document", r.selectedDoc.id, ""))
          EXCEPT !.content = r.selectedDoc.content,
                 !.docListener = @ + 1]

\* The body of the last effect, run for render r: it only installs the
\* clean-up, which closes over r's myPeer, myStream and peers.
Effect4(s, r) ==
  [s EXCEPT !.cl = [myPeer |-> r.myPeer, myStream |-> r.myStream,
                    peers |-> r.peers]]

\* The commit of a render in which selectedDoc changed: every clean-up runs
\* before any effect body.  s is the state the render saw.
SelEffects(s) == Effect4(Effect3(Cleanup4(Cleanup3(s)), s), s)

ListDoc(s, d) == [id |-> d, inList |-> TRUE, content |-> s.documents[d]]

\* handleSelectDoc up to its await.
HandleSelectDoc(s, doc) ==
  Start([s EXCEPT !.selectedDoc = doc], [k |-> "select", d |-> doc.id])

\* The effects of the render that follows a task.  r0 is the state the
\* previous render saw, s the state the task left.  The auto-select effect
\* (deps token, documents) calls handleSelectDoc, whose setSelectedDoc is
\* rendered next; the document it passes is an object of the current list.
Commit(r0, s, selChanged, docsChanged) ==
  LET tokenChanged == s.token # r0.token
      a == IF selChanged THEN SelEffects(s) ELSE s
      auto == /\ tokenChanged \/ docsChanged
              /\ s.token
              /\ urlDoc \in DOMAIN s.documents
      b == IF tokenChanged /\ s.token
             THEN Start(a, [k |-> "docs", d |-> "-"]) ELSE a
  IN  IF auto THEN SelEffects(HandleSelectDoc(b, ListDoc(b, urlDoc))) ELSE b

\* ------------------------------------------------------- auth and documents
\* handleAuthSubmit after its awaits, login mode, response ok.
LoginOk(s) == [s EXCEPT !.token = TRUE, !.user = TRUE]

HandleLogout(s) ==
  [s EXCEPT !.token = FALSE, !.user = FALSE, !.selectedDoc = NoDoc,
            !.content = ""]

\* setDocuments with a new array: the selected object is no longer in it.
SetDocuments(s, docs) ==
  [s EXCEPT !.documents = docs, !.selectedDoc.inList = FALSE]

\* The continuation of handleSelectDoc's fetch.
SelectDone(s, status, c) ==
  CASE status = "ok"   -> [s EXCEPT !.content = c]
    [] status = "401"  -> [s EXCEPT !.content = Undefined]
    [] OTHER           -> [s EXCEPT !.content = ""]

\* The continuation of handleJoinDocument's fetch, response ok.
JoinDone(s, d, c) ==
  Emit([s EXCEPT !.selectedDoc = [id |-> d, inList |-> FALSE, content |-> c],
                 !.content = c],
       Ev("join-document", d, ""))

\* ------------------------------------------------------------ document sync
\* The 'document-updated' listener.
OnDocumentUpdated(s, newContent) ==
  [s EXCEPT !.isRemote = TRUE, !.content = newContent]

\* handleEditorChange with "if (!value) return" before the broadcast: an
\* edit that empties the buffer is not sent.
HandleEditorChangeSkipsEmpty(s, value) ==
  LET a == [s EXCEPT !.content = value]
  IN  IF s.selectedDoc = NoDoc \/ value = "" THEN a
      ELSE IF ~s.isRemote
        THEN Start(Emit(a, Ev("edit-document", s.selectedDoc.id, value)),
                   [k |-> "put", d |-> "-"])
        ELSE [a EXCEPT !.isRemote = FALSE]

\* handleEditorChange without its last line: the flag is never consumed.
HandleEditorChangeKeepsFlag(s, value) ==
  LET a == [s EXCEPT !.content = value]
  IN  IF s.selectedDoc = NoDoc THEN a
      ELSE IF ~s.isRemote
        THEN Start(Emit(a, Ev("edit-document", s.selectedDoc.id, value)),
                   [k |-> "put", d |-> "-"])
        ELSE a

\* handleEditorChange up to its await (or to its end when it does not await).
HandleEditorChange(s, value) ==
  LET a == [s EXCEPT !.content = value]
  IN  IF s.selectedDoc = NoDoc THEN a
      ELSE IF ~s.isRemote
        THEN Start(Emit(a, Ev("edit-document", s.selectedDoc.id, value)),
                   [k |-> "put", d |-> "-"])
        ELSE [a EXCEPT !.isRemote = FALSE]

\* handleEditorChange after its await, with a catch that puts the selected
\* document's content back into the buffer.
EditorChangeResumeRollsBack(s, ok) ==
  LET a == IF ok THEN s
           ELSE [Emit(s, Ev("console.error", "save", ""))
                   EXCEPT !.content = s.selectedDoc.content]
  IN  [a EXCEPT !.isRemote = FALSE]

\* handleEditorChange after its await: the PUT settled, either way.
EditorChangeResume(s, ok) ==
  LET a == IF ok THEN s ELSE Emit(s, Ev("console.error", "save", ""))
  IN  [a EXCEPT !.isRemote = FALSE]

\* ---------------------------------------------------------------- video call
\* The id PeerJS gives the peer of call k once it is open; peer.id is unset
\* before that and after destroy().
PeerId(s, k) ==
  IF s.calls[k].open /\ ~s.calls[k].destroyed THEN SelfIds[k] ELSE NoPeer

\* The calls whose peer and listeners exist, had the code created them
\* before the await of getUserMedia.
WiredBeforeCapture(s) ==
  {k \in 1..Len(s.calls) : s.calls[k].pc \in {"capturing", "wired"}}

\* The calls whose socket listeners are registered (socket.on is never
\* paired with socket.off for 'user-joined-video' and 'user-left-video').
Wired(s) == {k \in 1..Len(s.calls) : s.calls[k].pc = "wired"}

\* handleJoinVideoCall up to its await.
HandleJoinVideoCall(s) ==
  IF s.inCall \/ s.selectedDoc = NoDoc THEN s
  ELSE [Emit(s, Ev("getUserMedia", "", "")) EXCEPT
          !.inCall = TRUE,
          !.calls = Append(@, [pc |-> "capturing", doc |-> s.selectedDoc.id,
                               open |-> FALSE, destroyed |-> FALSE,
                               live |-> FALSE])]

\* addPeerStream: the video element is created when absent, and setPeers
\* copies the map to force a render.
AddPeerStream(s, peerId) == [s EXCEPT !.videoRefs = @ \cup {peerId}]

\* handleJoinVideoCall after its await, capture succeeded: call k gets its
\* stream and its peer, and its listeners are registered.
JoinVideoCallResume(s, k) ==
  AddPeerStream([s EXCEPT !.myStream = k, !.myPeer = k,
                          !.calls[k].pc = "wired", !.calls[k].live = TRUE],
                "me")

\* handleJoinVideoCall's catch without setInCall(false).
JoinVideoCallFailedStaysInCall(s, k) ==
  [Emit(s, Ev("alert", "Could not access camera/microphone.", ""))
     EXCEPT !.calls[k].pc = "failed", !.calls[k].doc = "-"]

\* handleJoinVideoCall's catch.
JoinVideoCallFailed(s, k) ==
  [Emit(s, Ev("alert", "Could not access camera/microphone.", ""))
     EXCEPT !.inCall = FALSE, !.calls[k].pc = "failed",
            !.calls[k].doc = "-"]

\* peer.on('open') of call k: selectedDoc is the one of the render that ran
\* handleJoinVideoCall.
OnPeerOpen(s, k) ==
  Emit([s EXCEPT !.calls[k].open = TRUE, !.calls[k].doc = "-"],
       Ev("join-video", s.calls[k].doc, SelfIds[k]))

NewConn(s, k, peerId) ==
  [s EXCEPT !.conns = Append(@, [sess |-> k, remote |-> peerId,
                                 open |-> TRUE])]

SetPeer(s, peerId, c) ==
  [s EXCEPT !.peers = [p \in DOMAIN @ \cup {peerId} |->
                         IF p = peerId THEN c ELSE @[p]]]

\* peer.on('call') of call k.
OnCall(s, k, peerId) ==
  LET a == Emit(NewConn(s, k, peerId), Ev("call.answer", peerId, SelfIds[k]))
  IN  SetPeer(a, peerId, Len(a.conns))

\* One 'user-joined-video' listener, the one call k registered.
OnUserJoinedVideo(s, k, peerId) ==
  IF peerId = NoPeer \/ peerId = PeerId(s, k) THEN s
  ELSE LET a == Emit(NewConn(s, k, peerId), Ev("peer.call", peerId, SelfIds[k]))
       IN  SetPeer(a, peerId, Len(a.conns))

\* The 'user-left-video' listener with "return {}" for "return prev" when
\* the peer has no entry: the other entries are dropped.
OnUserLeftVideoDropsOthers(s, peerId) ==
  LET a == IF peerId \in s.videoRefs
             THEN [Emit(s, Ev("video.remove", peerId, ""))
                     EXCEPT !.videoRefs = @ \ {peerId}]
             ELSE s
  IN  IF peerId \notin DOMAIN a.peers THEN [a EXCEPT !.peers = EmptyMap]
      ELSE [Emit(CloseConn(a, a.peers[peerId]),
                 Ev("call.close", peerId, ConnIds[a.peers[peerId]]))
              EXCEPT !.peers = [p \in DOMAIN @ \ {peerId} |-> @[p]]]

\* One 'user-left-video' listener.
OnUserLeftVideo(s, peerId) ==
  LET a == IF peerId \in s.videoRefs
             THEN [Emit(s, Ev("video.remove", peerId, ""))
                     EXCEPT !.videoRefs = @ \ {peerId}]
             ELSE s
  IN  IF peerId \notin DOMAIN a.peers THEN a
      ELSE [Emit(CloseConn(a, a.peers[peerId]),
                 Ev("call.close", peerId, ConnIds[a.peers[peerId]]))
              EXCEPT !.peers = [p \in DOMAIN @ \ {peerId} |-> @[p]]]

\* call.on('stream') of connection c (PeerJS fires it once per track).
OnStream(s, c) == AddPeerStream(s, s.conns[c].remote)

\* socket.io calls the listeners of an event in the order they were
\* registered.  peer.call on a destroyed peer returns undefined, so the
\* listener throws at call.on and the listeners after it are not called.
RECURSIVE Dispatch(_, _, _)
Dispatch(s, ks, peerId) ==
  IF ks = <<>> THEN s
  ELSE LET k == Head(ks)
       IN  IF peerId # NoPeer /\ s.calls[k].destroyed THEN s
           ELSE Dispatch(OnUserJoinedVideo(s, k, peerId), Tail(ks), peerId)

RECURSIVE DispatchLeft(_, _, _)
DispatchLeft(s, ks, peerId) ==
  IF ks = <<>> THEN s
  ELSE DispatchLeft(OnUserLeftVideo(s, peerId), Tail(ks), peerId)

WiredSeq(s) ==
  SelectSeq([k \in 1..Len(s.calls) |-> k], LAMBDA k : s.calls[k].pc = "wired")

\* ---------------------------------------------------------------- join link
\* String.prototype.includes
Includes(l, p) == \E i \in 1..Len(l) : l[i] = p

\* String.prototype.split: the texts between the occurrences of p.
RECURSIVE Split(_, _)
Split(l, p) ==
  IF ~Includes(l, p) THEN <<l>>
  ELSE LET i == CHOOSE j \in 1..Len(l) :
                  l[j] = p /\ \A h \in 1..(j - 1) : l[h] # p
       IN  <<SubSeq(l, 1, i - 1)>> \o Split(SubSeq(l, i + 1, Len(l)), p)

\* String.prototype.trim
RECURSIVE Trim(_)
Trim(l) ==
  IF l = <<>> THEN l
  ELSE IF Head(l) = " " THEN Trim(Tail(l))
  ELSE IF l[Len(l)] = " " THEN Trim(SubSeq(l, 1, Len(l) - 1))
  ELSE l

\* The extraction with [0] for [1]: the text before the pattern is taken.
DocIdBeforePattern(link) ==
  IF Includes(link, "?doc=") THEN Split(link, "?doc=")[1]
  ELSE IF Includes(link, "/documents/") THEN Split(link, "/documents/")[1]
  ELSE Trim(link)

\* The document id handleJoinDocument extracts from the link (JavaScript
\* counts the parts of split from 0).
DocId(link) ==
  IF Includes(link, "?doc=") THEN Split(link, "?doc=")[2]
  ELSE IF Includes(link, "/documents/") THEN Split(link, "/documents/")[2]
  ELSE Trim(link)

\* ------------------------------------------------------------------ state
NoDocs == [d \in {} |-> ""]

\* The lists the server may return: none, or every document.
DocLists == {NoDocs} \cup {[d \in DocIds |-> c] : c \in Contents}

\* The state after the first render and its effects: token and user come
\* from localStorage, and the fetch-documents effect has run if a token is
\* there.
Init ==
  /\ token \in BOOLEAN
  /\ user = token
  /\ documents = NoDocs
  /\ urlDoc \in {"-", "A"}
  /\ selectedDoc = NoDoc
  /\ content = ""
  /\ isRemote = FALSE
  /\ docListener = 0
  /\ pending = [r \in Requests |->
                  IF token /\ r.k = "docs" THEN 1 ELSE 0]
  /\ inCall = FALSE
  /\ myPeer = 0
  /\ myStream = 0
  /\ peers = EmptyMap
  /\ videoRefs = {}
  /\ cl = [myPeer |-> 0, myStream |-> 0, peers |-> EmptyMap]
  /\ calls = <<>>
  /\ conns = <<>>
  /\ out = <<>>
  /\ remoteSince = FALSE
  /\ joinLink = <<>>
  /\ joinError = ""
  /\ joinFetch = NoFetch

\* A step: the task left state s, and the step is taken only within the
\* bounds on requests in flight.
Step(s) ==
  /\ InFlight(s) <= MaxAsync
  /\ Set(s)

\* ---------------------------------------------------------------- actions
Login ==
  /\ ~token
  /\ Step(Commit(Cur, LoginOk(Cur), FALSE, FALSE))

Logout ==
  /\ token
  /\ Step(Commit(Cur, HandleLogout(Cur), selectedDoc # NoDoc, FALSE))

DocsFetched ==
  /\ pending[[k |-> "docs", d |-> "-"]] > 0
  /\ LET s == Finish(Cur, [k |-> "docs", d |-> "-"])
     IN  \/ \E docs \in DocLists :
              Step(Commit(Cur, SetDocuments(s, docs), FALSE, TRUE))
         \/ Step(Commit(Cur, SetDocuments(HandleLogout(s), NoDocs),
                        selectedDoc # NoDoc, TRUE))
         \/ Step(Commit(Cur, SetDocuments(s, NoDocs), FALSE, TRUE))

SelectDoc ==
  /\ token
  /\ \E d \in DOMAIN documents :
       Step(Commit(Cur, HandleSelectDoc(Cur, ListDoc(Cur, d)),
                   selectedDoc # ListDoc(Cur, d), FALSE))

SelectFetched ==
  \E d \in DocIds :
    /\ pending[[k |-> "select", d |-> d]] > 0
    /\ LET s == Finish(Cur, [k |-> "select", d |-> d])
       IN  \/ \E c \in Contents :
                Step(SelectDone(s, "ok", c))
           \/ Step(SelectDone(s, "401", ""))
           \/ Step(SelectDone(s, "error", ""))

JoinDocument ==
  /\ token
  /\ \E d \in DocIds :
       Step(Start(Cur, [k |-> "join", d |-> d]))

JoinFetched ==
  \E d \in DocIds :
    /\ pending[[k |-> "join", d |-> d]] > 0
    /\ LET s == Finish(Cur, [k |-> "join", d |-> d])
       IN  \/ \E c \in Contents :
                Step(Commit(Cur, JoinDone(s, d, c), TRUE, FALSE))
           \/ Step(s)

DocumentUpdated ==
  /\ docListener > 0
  /\ \E c \in Contents :
       Step(OnDocumentUpdated(Emit(Cur, Ev("document-updated", c, "")), c))

EditorChange ==
  /\ token
  /\ selectedDoc # NoDoc
  /\ \E v \in Contents \cup {""} :
       Step(HandleEditorChange(Emit(Cur, Ev("editor.change", v, "")), v))

PutSettled ==
  /\ pending[[k |-> "put", d |-> "-"]] > 0
  /\ \E ok \in BOOLEAN :
       Step(EditorChangeResume(Finish(Cur, [k |-> "put", d |-> "-"]), ok))

JoinVideoCall ==
  /\ token
  /\ selectedDoc # NoDoc
  /\ ~inCall
  /\ Len(calls) < MaxCalls
  /\ Len(calls) + Len(conns) < MaxObjects
  /\ Step(HandleJoinVideoCall(Cur))

Captured ==
  \E k \in 1..Len(calls) :
    /\ calls[k].pc = "capturing"
    /\ \/ Step(JoinVideoCallResume(Cur, k))
       \/ Step(JoinVideoCallFailed(Cur, k))

PeerOpen ==
  \E k \in Wired(Cur) :
    /\ ~calls[k].open
    /\ ~calls[k].destroyed
    /\ Step(OnPeerOpen(Cur, k))

IncomingCall ==
  \E k \in Wired(Cur), p \in Remotes :
    /\ calls[k].open
    /\ ~calls[k].destroyed
    /\ Len(calls) + Len(conns) < MaxObjects
    /\ Step(OnCall(Emit(Cur, Ev("call", p, SelfIds[k])), k, p))

UserJoinedVideo ==
  /\ Wired(Cur) # {}
  /\ \E p \in Remotes \cup {NoPeer} \cup {PeerId(Cur, k) : k \in Wired(Cur)} :
       LET s == Dispatch(Emit(Cur, Ev("user-joined-video", p, "")),
                         WiredSeq(Cur), p)
       IN  /\ Len(s.calls) + Len(s.conns) <= MaxObjects
           /\ Step(s)

UserLeftVideo ==
  /\ Wired(Cur) # {}
  /\ \E p \in Remotes \cup {NoPeer} :
       Step(DispatchLeft(Emit(Cur, Ev("user-left-video", p, "")),
                         WiredSeq(Cur), p))

StreamArrives ==
  \E c \in 1..Len(conns) :
    /\ conns[c].open
    /\ Step(OnStream(Emit(Cur, Ev("stream", conns[c].remote, ConnIds[c])), c))

\* The join-link input's onChange: one piece is typed (or pasted) at the
\* end of the text, or the last one is deleted.
SetJoinLink ==
  /\ token
  /\ \/ /\ Len(joinLink) < MaxLink
        /\ \E x \in Pieces : joinLink' = Append(joinLink, x)
     \/ /\ joinLink # <<>>
        /\ joinLink' = SubSeq(joinLink, 1, Len(joinLink) - 1)
  /\ joinError' = ""
  /\ joinFetch' = NoFetch
  /\ UNCHANGED <<token, user, documents, urlDoc, selectedDoc, content,
                 isRemote, docListener, pending, inCall, myPeer, myStream,
                 peers, videoRefs, cl, calls, conns, out, remoteSince>>

\* handleJoinDocument up to its await, for the text in the input.
JoinLinkSubmit ==
  /\ token
  /\ IF Trim(joinLink) = <<>>
       THEN joinError' = "Please enter a shared link" /\ joinFetch' = NoFetch
       ELSE IF DocId(joinLink) = <<>>
         THEN /\ joinError' = "Invalid link format. Please check the shared link."
              /\ joinFetch' = NoFetch
         ELSE /\ joinError' = ""
              /\ joinFetch' = [sent |-> TRUE, id |-> DocId(joinLink)]
  /\ UNCHANGED <<token, user, documents, urlDoc, selectedDoc, content,
                 isRemote, docListener, pending, inCall, myPeer, myStream,
                 peers, videoRefs, cl, calls, conns, out, remoteSince,
                 joinLink>>

Next ==
  \/ Login
  \/ Logout
  \/ DocsFetched
  \/ SelectDoc
  \/ SelectFetched
  \/ JoinDocument
  \/ JoinFetched
  \/ DocumentUpdated
  \/ EditorChange
  \/ PutSettled
  \/ JoinVideoCall
  \/ Captured
  \/ PeerOpen
  \/ IncomingCall
  \/ UserJoinedVideo
  \/ UserLeftVideo
  \/ StreamArrives
  \/ SetJoinLink
  \/ JoinLinkSubmit

Spec == Init /\ [][Next]_vars

\* The document side alone: no call is ever joined.  The call actions write
\* none of the cells these actions read.
NextSync ==
  \/ Login
  \/ Logout
  \/ DocsFetched
  \/ SelectDoc
  \/ SelectFetched
  \/ JoinDocument
  \/ JoinFetched
  \/ DocumentUpdated
  \/ EditorChange
  \/ PutSettled

SpecSync == Init /\ [][NextSync]_vars

\* The call side with the operations that select a document.  The editor
\* and the remote updates, which write no cell the call reads, are left out,
\* and the REST collaborator is the simplest one: it answers each request
\* before anything else happens and serves one content.  A request's only
\* effect on the call is the selection made when it is issued
\* (handleSelectDoc) or answered (handleJoinDocument, the 401 logout), so
\* every order of selections, logouts and call events is still covered.
Quiet == InFlight(Cur) = 0

CallEnv ==
  /\ content' \in {"", "hello"}
  /\ documents' \in {NoDocs, [d \in DocIds |-> "hello"]}

NextCall ==
  \/ Quiet /\ Login
  \/ Quiet /\ Logout
  \/ DocsFetched /\ CallEnv
  \/ Quiet /\ SelectDoc
  \/ SelectFetched /\ CallEnv
  \/ Quiet /\ JoinDocument
  \/ JoinFetched /\ CallEnv
  \/ Quiet /\ JoinVideoCall
  \/ Quiet /\ Captured
  \/ Quiet /\ PeerOpen
  \/ Quiet /\ IncomingCall
  \/ Quiet /\ UserJoinedVideo
  \/ Quiet /\ UserLeftVideo
  \/ Quiet /\ StreamArrives

InitCall == Init /\ urlDoc = "-"

SpecCall == InitCall /\ [][NextCall]_vars

\* The join form alone: any text is typed and submitted.  In the other
\* specifications JoinDocument stands for a submitted link whose id is that
\* of a document, and the input stays empty.
NextLink ==
  \/ SetJoinLink
  \/ JoinLinkSubmit

SpecLink == Init /\ [][NextLink]_vars


\* ======================================================== document sync
Change(v) == Ev("editor.change", v, "")

Buffers == Contents \cup {""}

PutReq == [k |-> "put", d |-> "-"]

\* C1: while no remote update has arrived since the previous local-edit
\* callback (or since the start), every local-edit callback sends exactly one
\* 'edit-document' carrying the selected document's id and the edit's content.
C1_EveryLocalEditBroadcastOnce ==
  [][\A v \in Buffers :
       (~remoteSince /\ out' # <<>> /\ out'[1] = Change(v))
         => out' = <<Change(v), Ev("edit-document", selectedDoc.id, v)>>]_vars

\* Two edits in a row were both broadcast: each one started its PUT.
C1_Witness ==
  /\ out = <<Change("hello world"), Ev("edit-document", "A", "hello world")>>
  /\ pending[PutReq] = 2
  /\ ~isRemote

\* C2: the local-edit callback that directly follows a 'document-updated'
\* with content c leaves the buffer at c and sends nothing, and the callback
\* that directly follows that suppressed one is broadcast.
C2_RemoteEchoSuppressedOnce ==
  [][/\ \A c \in Contents :
          out = <<Ev("document-updated", c, "")>>
            => /\ content = c
               /\ (out' # <<>> /\ out'[1] = Change(c))
                    => (out' = <<Change(c)>> /\ content' = c)
     /\ \A c, v \in Buffers :
          (out = <<Change(c)>> /\ out' # <<>> /\ out'[1] = Change(v))
            => out' = <<Change(v), Ev("edit-document", selectedDoc.id, v)>>]_vars

\* The callback after the update "hello" -> "hello world" sent nothing.
C2_Witness ==
  /\ out = <<Change("hello world")>>
  /\ selectedDoc.id = "A"
  /\ selectedDoc.content = "hello"
  /\ content = "hello world"
  /\ ~isRemote

\* C6: a local-edit callback is suppressed exactly when a remote update
\* arrived since the previous callback: one suppression for each remote
\* update, taken by the very next callback.
C6_OneSuppressionPerRemoteUpdate ==
  [][\A v \in Buffers :
       (out' # <<>> /\ out'[1] = Change(v))
         => ((out' = <<Change(v)>>) <=> remoteSince)]_vars

\* C9: the completion of the fetch handleSelectDoc started for a document
\* that is no longer the selected one leaves the buffer alone and sends
\* nothing.
C9_StaleFetchDiscarded ==
  [][\A d \in DocIds :
       (/\ pending'[[k |-> "select", d |-> d]] < pending[[k |-> "select", d |-> d]]
        /\ selectedDoc # NoDoc
        /\ selectedDoc.id # d)
         => (content' = content /\ out' = <<>>)]_vars


\* ============================================================ video call
Releases == {"peer.destroy", "track.stop", "call.close"}

\* Every release of a call resource comes before the first 'join-document'.
ReleasedFirst(o) ==
  \A i, j \in 1..Len(o) :
    (o[i].ev = "join-document" /\ o[j].ev \in Releases) => j < i

OpenTo(p) == {c \in 1..Len(conns) : conns[c].remote = p /\ conns[c].open}

\* C3: when the selected document changes from one document to another
\* while a call is active (capture succeeded, inCall), the step destroys the
\* local peer, stops the local tracks and closes every connection of the
\* peers map, all before it sends 'join-document'.
C3_CallTerminatedBeforeNextRoom ==
  [][(/\ selectedDoc # NoDoc
      /\ selectedDoc' # NoDoc
      /\ selectedDoc'.id # selectedDoc.id
      /\ inCall
      /\ myPeer # 0)
       => /\ calls'[myPeer].destroyed
          /\ ~calls'[myStream].live
          /\ \A p \in DOMAIN peers : ~conns'[peers[p]].open
          /\ HasEv(out', "join-document")
          /\ ReleasedFirst(out')]_vars

\* C4: while a call is active, a 'user-joined-video' for a peer that has an
\* entry in the peers map makes no peer.call and leaves the map as it is.
C4_DuplicateJoinIgnored ==
  [][\A p \in Remotes :
       (/\ inCall
        /\ p \in DOMAIN peers
        /\ out' # <<>>
        /\ out'[1] = Ev("user-joined-video", p, ""))
         => (~HasEv(out', "peer.call") /\ peers' = peers)]_vars

\* C5: once the call has announced itself, a 'user-joined-video' for a peer
\* not yet linked makes exactly one peer.call to it, and the peer gets its
\* entry in the peers map only with its stream (its video element).
C5_OneAttemptLinkOnStream ==
  [][\A p \in Remotes :
       (/\ inCall
        /\ myPeer # 0
        /\ calls[myPeer].open
        /\ p \notin DOMAIN peers
        /\ out' # <<>>
        /\ out'[1] = Ev("user-joined-video", p, ""))
         => /\ Cardinality({i \in 1..Len(out') : out'[i].ev = "peer.call"}) = 1
            /\ p \in DOMAIN peers' => p \in videoRefs']_vars

\* C7: a 'user-left-video' for a peer with no entry in the peers map and no
\* video element changes nothing: the map, the video elements, the
\* connections and the calls stay as they are and nothing is sent or called.
C7_LeftOfUnknownPeerIsNoOp ==
  [][\A p \in Remotes \cup {NoPeer} :
       (/\ p \notin DOMAIN peers
        /\ p \notin videoRefs
        /\ out' # <<>>
        /\ out'[1] = Ev("user-left-video", p, ""))
         => /\ out' = <<Ev("user-left-video", p, "")>>
            /\ peers' = peers
            /\ videoRefs' = videoRefs
            /\ conns' = conns
            /\ calls' = calls
            /\ inCall' = inCall]_vars

\* p2, which has no entry and no video element, was reported to have left
\* while p1 is linked: p1's entry and its open connection are still there.
C7_Witness ==
  /\ out = <<Ev("user-left-video", "p2", "")>>
  /\ "p1" \in DOMAIN peers
  /\ conns[peers["p1"]].open
  /\ "p1" \in videoRefs
  /\ inCall

\* C8: inCall is true only when the capture of the call it was set for has
\* succeeded.
C8_InCallOnlyAfterCapture ==
  inCall => (calls # <<>> /\ calls[Len(calls)].pc = "wired")

\* C10: at most one connection to a given peer is open at any time.
C10_OneOpenConnectionPerPeer ==
  \A p \in Remotes : Cardinality(OpenTo(p)) <= 1

\* C11: every 'join-video' carries the id of the document that is selected
\* when it is emitted, also when the document was changed while the capture
\* or the opening of the peer was in flight.
C11_AnnounceNamesSelectedDoc ==
  [][\A i \in 1..Len(out') :
       out'[i].ev = "join-video" => out'[i].a = selectedDoc'.id]_vars

\* C12: a 401 response from a document endpoint logs the user out: token
\* and user are cleared and no document stays selected.  The response taken
\* here is the one to handleSelectDoc's GET /documents/{id}, whose body has
\* no content.
C12_UnauthorizedLogsOut ==
  [][\A d \in DocIds :
       (/\ pending'[[k |-> "select", d |-> d]] < pending[[k |-> "select", d |-> d]]
        /\ content' = Undefined)
         => (~token' /\ ~user' /\ selectedDoc' = NoDoc)]_vars

\* C13: when the capture of a call fails, the step notifies the user and
\* leaves inCall false; it sends no 'join-video', asks for no new capture,
\* creates no peer or stream and registers no listener, and the failed call
\* is never touched again.
C13_CaptureFailureBackToIdle ==
  [][/\ HasEv(out', "alert")
          => /\ \E k \in 1..Len(calls) :
                  calls[k].pc = "capturing" /\ calls'[k].pc = "failed"
             /\ ~inCall'
             /\ Len(out') = 1
             /\ myPeer' = myPeer
             /\ myStream' = myStream
             /\ Wired([calls |-> calls']) = Wired([calls |-> calls])
             /\ conns' = conns
             /\ peers' = peers
     /\ \A k \in 1..Len(calls) :
          calls[k].pc = "failed"
            => (calls'[k] = calls[k] /\ ~calls[k].open /\ ~calls[k].live)]_vars

\* The capture of the first call on A has just failed.
C13_Witness ==
  /\ Len(out) = 1
  /\ out[1].ev = "alert"
  /\ ~inCall
  /\ calls[1].pc = "failed"
  /\ selectedDoc.id = "A"
  /\ myPeer = 0
  /\ myStream = 0

\* C14: a step that logs out leaves no document selected, an empty buffer,
\* an empty document list, no 'document-updated' listener, inCall false, no
\* live local track and no open connection.
C14_LogoutClearsEverything ==
  [][(token /\ ~token')
       => /\ selectedDoc' = NoDoc
          /\ content' = ""
          /\ documents' = NoDocs
          /\ docListener' = 0
          /\ ~inCall'
          /\ \A k \in 1..Len(calls') : ~calls'[k].live
          /\ \A c \in 1..Len(conns') : ~conns'[c].open]_vars

\* The calls that are being acquired or hold a peer that was not destroyed.
Sessions(cs) ==
  {k \in 1..Len(cs) :
     cs[k].pc = "capturing" \/ (cs[k].pc = "wired" /\ ~cs[k].destroyed)}

\* C15: a capture is requested only when no call is being acquired or
\* active, so at most one call session exists at any time.
C15_AtMostOneCallSession ==
  [][/\ HasEv(out', "getUserMedia") => Sessions(calls) = {}
     /\ Cardinality(Sessions(calls')) <= 1]_vars

\* ============================================================== join link
Occurs(l, p) == {i \in 1..Len(l) : l[i] = p}

NonBlank(l) == {i \in 1..Len(l) : l[i] # " "}

Lowest(S) == CHOOSE i \in S : \A j \in S : i <= j

Highest(S) == CHOOSE i \in S : \A j \in S : j <= i

\* C16: submitting the join form resolves a link with one '?doc=' to the
\* text after it, a link with no '?doc=' and one '/documents/' to the text
\* after that, and any other text to itself without the blanks around it;
\* 'https://host/?doc=abc123' and 'https://host/documents/abc123' both give
\* 'abc123'.  A non-empty identifier is fetched with no error shown; an empty
\* one shows an error and nothing is fetched.
C16_JoinLinkResolution ==
  [][(token /\ joinLink' = joinLink)
       => LET l == joinLink
              q == Occurs(l, "?doc=")
              d == Occurs(l, "/documents/")
              n == NonBlank(l)
              Goes(id) ==
                IF id = <<>>
                  THEN joinError' # "" /\ ~joinFetch'.sent
                  ELSE joinError' = "" /\ joinFetch' = [sent |-> TRUE, id |-> id]
          IN  /\ \A i \in q : q = {i} => Goes(SubSeq(l, i + 1, Len(l)))
              /\ \A i \in d :
                   (q = {} /\ d = {i}) => Goes(SubSeq(l, i + 1, Len(l)))
              /\ (q = {} /\ d = {})
                   => IF n = {} THEN Goes(<<>>)
                      ELSE Goes(SubSeq(l, Lowest(n), Highest(n)))
              /\ l = <<"https://host", "/", "?doc=", "abc123">>
                   => joinFetch' = [sent |-> TRUE, id |-> <<"abc123">>]
              /\ l = <<"https://host", "/documents/", "abc123">>
                   => joinFetch' = [sent |-> TRUE, id |-> <<"abc123">>]]_vars

\* 'https://host/?doc=abc123' was submitted and abc123 is being fetched.
C16_Witness ==
  /\ joinLink = <<"https://host", "/", "?doc=", "abc123">>
  /\ joinFetch = [sent |-> TRUE, id |-> <<"abc123">>]
  /\ joinError = ""

\* ============================================================== announce
\* C17: a 'join-video' is sent for a call only when its capture has
\* succeeded (its stream is live), in the step in which its peer reports
\* open, and with the call's listeners, the one for inbound calls included,
\* registered before that step.
C17_AnnounceAfterCaptureAndOpen ==
  [][\A i \in 1..Len(out') :
       out'[i].ev = "join-video"
         => \E k \in 1..Len(calls) :
              /\ out'[i].b = SelfIds[k]
              /\ calls[k].pc = "wired"
              /\ calls[k].live
              /\ ~calls[k].open
              /\ calls'[k].open
              /\ ~calls'[k].destroyed]_vars

\* The first call on A has just announced itself.
C17_Witness ==
  /\ Len(out) = 1
  /\ out[1] = Ev("join-video", "A", "self1")
  /\ calls[1].pc = "wired"
  /\ calls[1].open
  /\ calls[1].live
  /\ inCall

\* ====================================================== edits and requests
\* C18: the first local-edit callback after a remote update sends no
\* 'edit-document', whatever requests completed in between (the flag is
\* cleared only by a callback or by the completion of a PUT, so the case
\* that matters is a remote update that arrived while a PUT was in flight).
C18_SuppressionSurvivesPut ==
  [][\A v \in Buffers :
       (remoteSince /\ out' # <<>> /\ out'[1] = Change(v))
         => ~HasEv(out', "edit-document")]_vars

\* C19: a PUT is only started by a step that sent the edit's
\* 'edit-document'; when it fails, the step logs and does nothing else: the
\* buffer, the selection, the credentials, the call and the join error are
\* unchanged, nothing is sent, and no request is started.
C19_FailedSaveSwallowed ==
  [][/\ pending'[PutReq] > pending[PutReq] => HasEv(out', "edit-document")
     /\ HasEv(out', "console.error")
          => /\ Len(out') = 1
             /\ content' = content
             /\ selectedDoc' = selectedDoc
             /\ token' = token
             /\ user' = user
             /\ joinError' = joinError
             /\ <<inCall, myPeer, myStream, peers, calls, conns>>'
                  = <<inCall, myPeer, myStream, peers, calls, conns>>
             /\ pending' = [pending EXCEPT ![PutReq] = @ - 1]]_vars

\* The save of an edit of A failed: the buffer still holds the edit.
C19_Witness ==
  /\ Len(out) = 1
  /\ out[1].ev = "console.error"
  /\ content = "hello world"
  /\ selectedDoc.id = "A"
  /\ selectedDoc.content = "hello"
  /\ pending[PutReq] = 0
  /\ token

\* ============================================================ call resources
\* C20: while inCall is false no call resource is held: no local track is
\* live, no peer exists that was not destroyed, and no connection is open.
C20_IdleHoldsNoResources ==
  ~inCall
    => /\ \A k \in 1..Len(calls) :
            ~calls[k].live /\ ~(calls[k].pc = "wired" /\ ~calls[k].destroyed)
       /\ \A c \in 1..Len(conns) : ~conns[c].open

\* C21: the call's socket listeners do not outlive it: once the call state
\* is reset (inCall false, no peer and no stream held) a 'user-joined-video'
\* or 'user-left-video' makes no peer.call and leaves the peers map as it
\* is, and at most one call's listeners are registered at any time.
C21_ListenersEndWithCall ==
  [][/\ (/\ ~inCall
         /\ myPeer = 0
         /\ myStream = 0
         /\ out' # <<>>
         /\ out'[1].ev \in {"user-joined-video", "user-left-video"})
          => (~HasEv(out', "peer.call") /\ peers' = peers)
     /\ Cardinality(Wired([calls |-> calls'])) <= 1]_vars

=============================================================================
